---- MODULE Spec2Model ----
(***************************************************************************)
(* A model of playground-elements: the <vanilla-tab-bar>/<vanilla-tab>      *)
(* widgets (src/src/internal/vanilla-tab.ts), the <playground-file-editor> *)
(* wrapper (src/unnamed/part_000) and the TypeScript worker's              *)
(* compileProject pipeline (src/unnamed/part_001).                         *)
(*                                                                         *)
(* Each subsystem has its own variables, initial predicate and next-state  *)
(* relation; a subsystem's specification leaves the other subsystems'      *)
(* variables at their initial values.                                      *)
(***************************************************************************)
EXTENDS Integers, Sequences, FiniteSets, TLC

\* JavaScript's undefined, for values that are otherwise tab ids or records.
None == 0

(***************************************************************************)
(* Part 1: <vanilla-tab> and <vanilla-tab-bar>                             *)
(***************************************************************************)

\* Number of <vanilla-tab> elements that exist (a bound of the model).
NumTabs == 2

Tabs == 1..NumTabs

VARIABLES
  tabActive,          \* VanillaTab.active of each tab
  tabIdx,             \* VanillaTab.idx of each tab
  tabChanged,         \* tab has an update pending whose changes.has('active')
  slotted,            \* the slot's assignedElements(), in slot order
  slotchangePending,  \* a slotchange event is queued for the bar
  barTabs,            \* VanillaTabBar._tabs
  barActive,          \* VanillaTabBar._active (None for undefined)
  tabLast             \* history: the last handler that ran, and what it saw

tabVars == <<tabActive, tabIdx, tabChanged, slotted, slotchangePending,
             barTabs, barActive, tabLast>>

VARIABLES
  edProject,        \* this._project (None for undefined)
  edChanged,        \* the pending update's changedProperties.has('_project')
  edOldProject,     \* the pending update's changedProperties.get('_project')
  edUpdatePending,  \* an update of the editor has been requested
  filename,         \* this.filename
  readonly,         \* this.readonly
  projFiles,        \* the files array of each project
  listeners,        \* the editor's handlers registered on each project
  shown,            \* .value and .readonly of <playground-code-editor>
  edLast            \* history: the editor handler that ran last

edVars == <<edProject, edChanged, edOldProject, edUpdatePending, filename,
            readonly, projFiles, listeners, shown, edLast>>

VARIABLES
  calls,       \* per compileProject call: its position and its locals
  running,     \* the call whose synchronous code is on the stack, or None
  hostFiles,   \* WorkerLanguageServiceHost.files of a host queried directly
  hostAnswer,  \* what that host last answered, and for which path
  tsDiagnostic,  \* <<d>>: a TypeScript diagnostic handed to makeLspDiagnostic
  lspDiagnostic  \* <<r>>: what makeLspDiagnostic returned for it

wkVars == <<calls, running>>

hostVars == <<hostFiles, hostAnswer>>

lspVars == <<tsDiagnostic, lspDiagnostic>>

vars == <<tabVars, edVars, wkVars, hostVars, lspVars>>

\* What a step of one part leaves alone: the other parts.
TabOnly == UNCHANGED <<edVars, wkVars, hostVars, lspVars>>
EdOnly == UNCHANGED <<tabVars, wkVars, hostVars, lspVars>>
WkOnly == UNCHANGED <<tabVars, edVars, hostVars, lspVars>>
HostOnly == UNCHANGED <<tabVars, edVars, wkVars, lspVars>>
LspOnly == UNCHANGED <<tabVars, edVars, wkVars, hostVars>>

InSeq(s, t) == \E i \in DOMAIN s : s[i] = t

\* The element state the handlers read and write, as one record, so that a
\* handler's sequential assignments compose as function application.
TabState == [active |-> tabActive, changed |-> tabChanged, idx |-> tabIdx,
             barActive |-> barActive]

\* `tab.active = v` through LitElement's property accessor: the value is
\* stored and, when it differs from the old one, an update is requested with
\* 'active' among the changed properties.
TabSetActive(st, t, v) ==
  [st EXCEPT !.active[t] = v,
             !.changed[t] = @ \/ (st.active[t] # v)]

\* A setter that keeps the previously active tab active.
BarSetActiveKeepsPrevious(st, tab) ==
  IF st.barActive = tab THEN st
  ELSE LET s2 == IF tab # None THEN TabSetActive(st, tab, TRUE) ELSE st
       IN [s2 EXCEPT !.barActive = tab]

\* A setter that forgets to store the new active tab.
BarSetActiveForgetsStore(st, tab) ==
  IF st.barActive = tab THEN st
  ELSE LET s1 == IF st.barActive # None
                 THEN TabSetActive(st, st.barActive, FALSE) ELSE st
       IN IF tab # None THEN TabSetActive(s1, tab, TRUE) ELSE s1

\* get active() of VanillaTabBar.
BarGetActive == barActive

\* set active(tab) of VanillaTabBar.
BarSetActive(st, tab) ==
  IF st.barActive = tab THEN st
  ELSE LET s1 == IF st.barActive # None
                 THEN TabSetActive(st, st.barActive, FALSE) ELSE st
           s2 == IF tab # None THEN TabSetActive(s1, tab, TRUE) ELSE s1
       IN [s2 EXCEPT !.barActive = tab]

\* VanillaTabBar._onTabchange for an event whose detail.tab is `tab`.
BarOnTabchange(st, tab) ==
  IF tab # st.barActive THEN BarSetActive(st, tab) ELSE st

\* A slotchange loop that deactivates no tab after the first active one.
SlotchangeStepKeepsLater(st, tabs, i) ==
  LET tab == tabs[i]
      s1 == [st EXCEPT !.idx[tab] = i - 1]
  IN IF s1.barActive # None THEN s1
     ELSE IF s1.active[tab] = TRUE THEN [s1 EXCEPT !.barActive = tab]
     ELSE s1

\* A slotchange loop that numbers the tabs from 1.
SlotchangeStepOneBased(st, tabs, i) ==
  LET tab == tabs[i]
      s1 == [st EXCEPT !.idx[tab] = i]
  IN IF s1.barActive # None THEN TabSetActive(s1, tab, FALSE)
     ELSE IF s1.active[tab] = TRUE THEN [s1 EXCEPT !.barActive = tab]
     ELSE s1

\* One iteration of the loop of VanillaTabBar._onSlotchange, for the tab at
\* (1-based) position i of tabs; the code's index is i - 1.
SlotchangeStep(st, tabs, i) ==
  LET tab == tabs[i]
      s1 == [st EXCEPT !.idx[tab] = i - 1]
  IN IF s1.barActive # None THEN TabSetActive(s1, tab, FALSE)
     ELSE IF s1.active[tab] = TRUE THEN [s1 EXCEPT !.barActive = tab]
     ELSE s1

\* The loop of VanillaTabBar._onSlotchange over positions i..Len(tabs).
RECURSIVE SlotchangeLoop(_, _, _)
SlotchangeLoop(st, tabs, i) ==
  IF i > Len(tabs) THEN st
  ELSE SlotchangeLoop(SlotchangeStep(st, tabs, i), tabs, i + 1)

\* Whether VanillaTabBar._onSlotchange dispatches its own 'tabchange'.
SlotchangeDispatches(newActive, prevActive) ==
  newActive = None /\ prevActive # None

\* The detail of a 'tabchange' event after its listeners ran; NoDetail when
\* no event was dispatched.
NoDetail == [tab |-> None, previous |-> None]

\* The history record of the handler that ran last. For "update", "barSet" and
\* "slotchange": the tab it was about (for a slotchange, the bar's new active
\* tab), the bar's active tab when it started (prev), whether it dispatched a
\* 'tabchange' event (fired) and with which detail, whether the bar's
\* _onTabchange listener received that event (heard), and whether it set the
\* active flag of a tab that was active to false (demoted). Every other step
\* records op "other".
Last(op, tab, prev, fired, heard, detail, demoted) ==
  [op |-> op, tab |-> tab, prev |-> prev, fired |-> fired, heard |-> heard,
   detail |-> detail, demoted |-> demoted]

NoLast == Last("other", None, None, FALSE, FALSE, NoDetail, FALSE)

\* Whether going from st to its successor new turned an active tab inactive.
Demotes(st, new) == \E t \in Tabs : st.active[t] /\ ~new.active[t]

Commit(st) ==
  /\ tabActive' = st.active
  /\ tabChanged' = st.changed
  /\ tabIdx' = st.idx
  /\ barActive' = st.barActive

TabInit ==
  /\ tabActive = [t \in Tabs |-> FALSE]
  /\ tabIdx = [t \in Tabs |-> 0]
  /\ tabChanged = [t \in Tabs |-> TRUE]
  /\ slotted = <<>>
  /\ slotchangePending = FALSE
  /\ barTabs = <<>>
  /\ barActive = None
  /\ tabLast = NoLast

\* s with t inserted so that it ends up at position i.
InsertAt(s, i, t) == SubSeq(s, 1, i - 1) \o <<t>> \o SubSeq(s, i, Len(s))

\* s without its element at position i.
RemoveAt(s, i) == SubSeq(s, 1, i - 1) \o SubSeq(s, i + 1, Len(s))

\* The page appends or inserts tab t as a child of the bar; the slot queues a
\* slotchange event.
DomInsert(t, i) ==
  /\ ~InSeq(slotted, t)
  /\ i \in 1..(Len(slotted) + 1)
  /\ slotted' = InsertAt(slotted, i, t)
  /\ slotchangePending' = TRUE
  /\ tabLast' = NoLast
  /\ UNCHANGED <<tabActive, tabIdx, tabChanged, barTabs, barActive>>
  /\ TabOnly

\* The page removes the bar's child at position i; the slot queues a
\* slotchange event.
DomRemove(i) ==
  /\ i \in DOMAIN slotted
  /\ slotted' = RemoveAt(slotted, i)
  /\ slotchangePending' = TRUE
  /\ tabLast' = NoLast
  /\ UNCHANGED <<tabActive, tabIdx, tabChanged, barTabs, barActive>>
  /\ TabOnly

\* VanillaTab._onClick: this.active = true. An assignment tab.active = true
\* by the page, the documented way to activate a tab, is the same step.
Click(t) ==
  /\ Commit(TabSetActive(TabState, t, TRUE))
  /\ tabLast' = NoLast
  /\ UNCHANGED <<slotted, slotchangePending, barTabs>>
  /\ TabOnly

\* VanillaTab.update dispatches a bubbling 'tabchange' exactly when the tab
\* is active and 'active' is among the changes.
TabUpdateDispatches(t) == tabActive[t] /\ tabChanged[t]

\* LitElement runs the pending update of tab t: VanillaTab.update. The event
\* bubbles to the listener on the bar's slot when t is assigned to that slot.
TabUpdate(t) ==
  /\ tabChanged[t]
  /\ LET fires == TabUpdateDispatches(t)
         reaches == fires /\ InSeq(slotted, t)
         st == IF reaches THEN BarOnTabchange(TabState, t) ELSE TabState
     IN /\ Commit([st EXCEPT !.changed[t] = FALSE])
        /\ tabLast' = Last("update", t, barActive, fires, reaches,
                           IF fires
                           THEN [tab |-> t,
                                 previous |-> IF reaches /\ t # barActive
                                              THEN barActive ELSE None]
                           ELSE NoDetail,
                           Demotes(TabState, st))
  /\ UNCHANGED <<slotted, slotchangePending, barTabs>>
  /\ TabOnly

\* An assignment bar.active = tab by the page.
AssignBarActive(tab) ==
  /\ Commit(BarSetActive(TabState, tab))
  /\ tabLast' = Last("barSet", tab, barActive, FALSE, FALSE, NoDetail,
                     Demotes(TabState, BarSetActive(TabState, tab)))
  /\ UNCHANGED <<slotted, slotchangePending, barTabs>>
  /\ TabOnly

\* VanillaTabBar._onSlotchange.
OnSlotchange ==
  /\ slotchangePending
  /\ slotchangePending' = FALSE
  /\ barTabs' = slotted
  /\ LET prevActive == barActive
         st == SlotchangeLoop([TabState EXCEPT !.barActive = None],
                              slotted, 1)
     IN /\ Commit(st)
        /\ tabLast' = Last("slotchange", st.barActive, prevActive,
                           SlotchangeDispatches(st.barActive, prevActive),
                           FALSE,
                           IF SlotchangeDispatches(st.barActive, prevActive)
                           THEN [tab |-> None, previous |-> prevActive]
                           ELSE NoDetail,
                           Demotes(TabState, st))
  /\ UNCHANGED slotted
  /\ TabOnly

\* The keys a keydown event can carry; "Enter" stands for every key other
\* than the two arrows.
Keys == {"ArrowLeft", "ArrowRight", "Enter"}

\* The index _onKeydown computes from the key, the old index and the length
\* of _tabs.
KeydownIndex(key, oldIdx, length) ==
  IF key = "ArrowLeft"
  THEN IF oldIdx > 0 THEN oldIdx - 1 ELSE oldIdx
  ELSE IF key = "ArrowRight"
  THEN IF oldIdx < length - 1 THEN oldIdx + 1 ELSE oldIdx
  ELSE oldIdx

\* this._active?.idx ?? 0 of _onKeydown.
KeydownOldIdx == IF barActive = None THEN 0 ELSE tabIdx[barActive]

\* The history record of a run of _onKeydown: the key, the old and the new
\* index, the tab it activated and focused (None when it did neither), and
\* whether it threw because _tabs[newIdx] is undefined.
KeyLast(key, oldIdx, newIdx, tab, threw) ==
  [op |-> "keydown", key |-> key, oldIdx |-> oldIdx, newIdx |-> newIdx,
   tab |-> tab, focused |-> tab, threw |-> threw]

\* VanillaTabBar._onKeydown for a keydown event that reaches the slot. When
\* the index moved and _tabs has no element there, `tab.active = true` throws
\* a TypeError and the handler ends without having changed anything.
Keydown(key) ==
  /\ LET oldIdx == KeydownOldIdx
         newIdx == KeydownIndex(key, oldIdx, Len(barTabs))
     IN IF newIdx # oldIdx /\ newIdx + 1 \in DOMAIN barTabs
        THEN /\ Commit(TabSetActive(TabState, barTabs[newIdx + 1], TRUE))
             /\ tabLast' = KeyLast(key, oldIdx, newIdx, barTabs[newIdx + 1],
                                   FALSE)
        ELSE /\ UNCHANGED <<tabActive, tabIdx, tabChanged, barActive>>
             /\ tabLast' = KeyLast(key, oldIdx, newIdx, None,
                                   newIdx # oldIdx)
  /\ UNCHANGED <<slotted, slotchangePending, barTabs>>
  /\ TabOnly

TabNext ==
  \/ \E t \in Tabs, i \in 1..NumTabs : DomInsert(t, i)
  \/ \E i \in 1..NumTabs : DomRemove(i)
  \/ \E t \in Tabs : Click(t)
  \/ \E t \in Tabs : TabUpdate(t)
  \/ \E tab \in Tabs \cup {None} : AssignBarActive(tab)
  \/ OnSlotchange

(***************************************************************************)
(* Part 2: <playground-file-editor>                                        *)
(***************************************************************************)

\* Number of <playground-project> elements the editor can be connected to.
NumProjects == 2

Projects == 1..NumProjects

\* The names project files can have, and the contents files can have.
FileNames == {"a.ts", "b.js"}
Contents == {"x", "y"}

\* JavaScript's undefined for the string-valued filename property.
NoName == "<undefined>"

\* The values the page can give the filename property.
FilenameValues == FileNames \cup {NoName, ""}

\* The events of a project the editor listens to.
ProjectEvents == {"filesChanged", "compileDone", "diagnosticsChanged"}

\* get _files(): this._project?.files ?? [], with pf the projects' files.
EdFiles(pf, project) == IF project = None THEN <<>> ELSE pf[project]

\* Array.prototype.find by name: the position of the first file called name,
\* 0 when there is none.
FindByName(files, name) ==
  IF \E i \in DOMAIN files : files[i].name = name
  THEN CHOOSE i \in DOMAIN files :
         /\ files[i].name = name
         /\ \A j \in DOMAIN files : files[j].name = name => i <= j
  ELSE 0

\* JavaScript truthiness of the filename property: undefined and the empty
\* string are falsy.
Truthy(name) == name # NoName /\ name # ""

\* A _currentFile that falls back to the first file.
CurrentFileIndexOrFirst(files, name) ==
  IF Truthy(name) /\ FindByName(files, name) # 0
  THEN FindByName(files, name)
  ELSE IF Len(files) > 0 THEN 1 ELSE 0

\* get _currentFile(), as the position of the file in _files (0: undefined).
CurrentFileIndex(files, name) ==
  IF Truthy(name) THEN FindByName(files, name) ELSE 0

\* .value of render(): this._currentFile?.content ?? ''.
RenderValue(files, name) ==
  IF CurrentFileIndex(files, name) # 0
  THEN files[CurrentFileIndex(files, name)].content
  ELSE ""

\* A .readonly binding that ignores whether a file is displayed.
RenderReadonlyPropertyOnly(files, name, ro) == ro

\* .readonly of render(): this.readonly || !this._currentFile.
RenderReadonly(files, name, ro) == ro \/ CurrentFileIndex(files, name) = 0

\* render(): the properties bound on <playground-code-editor>.
Render(files, name, ro) ==
  [value |-> RenderValue(files, name),
   readonly |-> RenderReadonly(files, name, ro)]

\* A defaulting that also replaces a filename that names no file.
DefaultedFilenameWhenMissing(files, name) ==
  IF FindByName(files, name) = 0 /\ Len(files) > 0
  THEN files[1].name ELSE name

\* this.filename ??= this._files[0]?.name, of _onProjectFilesChanged.
DefaultedFilename(files, name) ==
  IF name = NoName /\ Len(files) > 0 THEN files[1].name ELSE name

\* The history record of the editor handler that ran last: "update", "edit"
\* or "other"; for an edit, the project whose saveDebounced it called (None
\* when it called none); for an update that processed a change of _project,
\* the old project it took the listeners from (None when there was none).
EdLast(op, saved, old) == [op |-> op, saved |-> saved, old |-> old]

EdOther == EdLast("other", None, None)

EdInit ==
  /\ edProject = None
  /\ edChanged = FALSE
  /\ edOldProject = None
  /\ edUpdatePending = TRUE
  /\ filename = NoName
  /\ readonly = FALSE
  /\ projFiles = [p \in Projects |-> <<>>]
  /\ listeners = [p \in Projects |-> {}]
  /\ shown = [value |-> "", readonly |-> FALSE]
  /\ edLast = EdOther

\* PlaygroundConnectedElement connects the editor to project p, or to none:
\* the _project property changes and LitElement records its first old value.
SetProject(p) ==
  /\ p # edProject
  /\ edProject' = p
  /\ edChanged' = TRUE
  /\ edOldProject' = IF edChanged THEN edOldProject ELSE edProject
  /\ edUpdatePending' = TRUE
  /\ edLast' = EdOther
  /\ UNCHANGED <<filename, readonly, projFiles, listeners, shown>>
  /\ EdOnly

\* The page assigns the filename property.
SetFilename(n) ==
  /\ n # filename
  /\ filename' = n
  /\ edUpdatePending' = TRUE
  /\ edLast' = EdOther
  /\ UNCHANGED <<edProject, edChanged, edOldProject, readonly, projFiles,
                 listeners, shown>>
  /\ EdOnly

\* The page assigns the readonly property.
SetReadonly(b) ==
  /\ b # readonly
  /\ readonly' = b
  /\ edUpdatePending' = TRUE
  /\ edLast' = EdOther
  /\ UNCHANGED <<edProject, edChanged, edOldProject, filename, projFiles,
                 listeners, shown>>
  /\ EdOnly

\* Project p, whose files have become pf[p], dispatches 'filesChanged': when
\* the editor listens, _onProjectFilesChanged runs.
DispatchFilesChanged(p, pf) ==
  IF "filesChanged" \in listeners[p]
  THEN /\ filename' = DefaultedFilename(EdFiles(pf, edProject), filename)
       /\ edUpdatePending' = TRUE
  ELSE UNCHANGED <<filename, edUpdatePending>>

\* Project p gets a file appended and dispatches 'filesChanged'.
ProjectAddFile(p, n, c) ==
  /\ FindByName(projFiles[p], n) = 0
  /\ projFiles' = [projFiles EXCEPT
                     ![p] = Append(@, [name |-> n, content |-> c])]
  /\ DispatchFilesChanged(p, projFiles')
  /\ edLast' = EdOther
  /\ UNCHANGED <<edProject, edChanged, edOldProject, readonly, listeners,
                 shown>>
  /\ EdOnly

\* Project p loses its file at position i and dispatches 'filesChanged'.
ProjectRemoveFile(p, i) ==
  /\ i \in DOMAIN projFiles[p]
  /\ projFiles' = [projFiles EXCEPT ![p] = RemoveAt(@, i)]
  /\ DispatchFilesChanged(p, projFiles')
  /\ edLast' = EdOther
  /\ UNCHANGED <<edProject, edChanged, edOldProject, readonly, listeners,
                 shown>>
  /\ EdOnly

\* Project p dispatches 'compileDone' or 'diagnosticsChanged': when the editor
\* listens, _onCompileDone or _onDiagnosticsChanged requests an update.
ProjectNotify(p, ev) ==
  /\ ev \in listeners[p]
  /\ edUpdatePending' = TRUE
  /\ edLast' = EdOther
  /\ UNCHANGED <<edProject, edChanged, edOldProject, filename, readonly,
                 projFiles, listeners, shown>>
  /\ EdOnly

\* An update() that leaves the old project's listeners in place.
MovedListenersKeepsOld(ls, old, new) ==
  IF new # None THEN [ls EXCEPT ![new] = ProjectEvents] ELSE ls

\* The listeners after update() moved them from the old project to the new.
MovedListeners(ls, old, new) ==
  LET removed == IF old # None THEN [ls EXCEPT ![old] = {}] ELSE ls
  IN IF new # None THEN [removed EXCEPT ![new] = ProjectEvents] ELSE removed

\* LitElement runs the editor's pending update: update(), then render().
EditorUpdate ==
  /\ edUpdatePending
  /\ edUpdatePending' = FALSE
  /\ edChanged' = FALSE
  /\ edOldProject' = None
  /\ listeners' = IF edChanged
                  THEN MovedListeners(listeners, edOldProject, edProject)
                  ELSE listeners
  /\ filename' = IF edChanged
                 THEN DefaultedFilename(EdFiles(projFiles, edProject), filename)
                 ELSE filename
  /\ shown' = Render(EdFiles(projFiles, edProject), filename', readonly)
  /\ edLast' = EdLast("update", None,
                      IF edChanged THEN edOldProject ELSE None)
  /\ UNCHANGED <<edProject, readonly, projFiles>>
  /\ EdOnly

\* _onEdit: the code editor, whose value has become v, dispatches 'change'.
OnEdit(v) ==
  LET i == CurrentFileIndex(EdFiles(projFiles, edProject), filename)
  IN /\ shown' = [shown EXCEPT !.value = v]
     /\ IF i # 0
        THEN /\ projFiles' = [projFiles EXCEPT ![edProject][i].content = v]
             /\ edLast' = EdLast("edit", edProject, None)
        ELSE /\ UNCHANGED projFiles
             /\ edLast' = EdLast("edit", None, None)
     /\ UNCHANGED <<edProject, edChanged, edOldProject, edUpdatePending,
                    filename, readonly, listeners>>
     /\ EdOnly

EdNext ==
  \/ \E p \in Projects \cup {None} : SetProject(p)
  \/ \E n \in FilenameValues : SetFilename(n)
  \/ \E b \in BOOLEAN : SetReadonly(b)
  \/ \E p \in Projects, n \in FileNames, c \in Contents :
       ProjectAddFile(p, n, c)
  \/ \E p \in Projects, i \in 1..Cardinality(FileNames) :
       ProjectRemoveFile(p, i)
  \/ \E p \in Projects, ev \in ProjectEvents \ {"filesChanged"} :
       ProjectNotify(p, ev)
  \/ EditorUpdate
  \/ \E v \in Contents : OnEdit(v)

(***************************************************************************)
(* Part 3: the TypeScript worker (compileProject and its host)             *)
(***************************************************************************)

\* Bound on the files of a project handed to compileProject.
MaxFiles == 2

\* Number of compileProject calls the worker receives.
NumCalls == 2

CallIds == 1..NumCalls

\* The calls made when the worker serves one project that compiles once.
SoloCalls == {1}

\* self.origin of the worker.
Origin == "https://playground.test"

\* Source text is modelled by the statements TypeScript parses it into: an
\* import declaration or an export ... from declaration with its module
\* specifier, a statement with a syntax error, or any other statement.
Stmt(kind, spec) == [kind |-> kind, spec |-> spec]

\* The contents of project files.
SrcImports == <<Stmt("import", "lit"), Stmt("import", "./b.js")>>
SrcReexport == <<Stmt("export", "lit"), Stmt("code", "")>>
SrcBroken == <<Stmt("bad", "")>>
Sources == {SrcImports, SrcReexport, SrcBroken}

\* The module specifiers of the imports and exports in Sources.
ModuleSpecifiers == {"lit", "./b.js"}

\* The names of project files.
InputNames == {"a.ts", "./a.ts", "b.js", "c.html"}

SampleFiles == [name : InputNames, content : Sources]

\* The projects compileProject is called with: up to MaxFiles files with
\* distinct names.
ProjectInputs ==
  {fs \in UNION {[1..n -> SampleFiles] : n \in 0..MaxFiles} :
     \A i, j \in DOMAIN fs : i # j => fs[i].name # fs[j].name}

\* Import maps: specifier -> URL.
NoImports == [x \in {} |-> ""]
LitImports == [x \in {"lit"} |-> "https://cdn.test/lit@2/index.js"]
ImportMaps == {NoImports, LitImports}

\* The declaration files a TypesFetcher can come back with, by specifier, and
\* their contents.
TypeSpecifiers == {"lit/index.d.ts", "typescript/lib/lib.dom.d.ts"}
TypeContent(specifier) == <<Stmt("declarations", specifier)>>

\* An empty Map.
EmptyMap == [x \in {} |-> <<>>]

\* Map.prototype.set.
MapSet(m, k, v) == [x \in DOMAIN m \cup {k} |-> IF x = k THEN v ELSE m[x]]

\* String.prototype.endsWith and startsWith.
EndsWith(s, suffix) ==
  /\ Len(s) >= Len(suffix)
  /\ SubSeq(s, Len(s) - Len(suffix) + 1, Len(s)) = suffix

StartsWith(s, prefix) ==
  /\ Len(s) >= Len(prefix)
  /\ SubSeq(s, 1, Len(prefix)) = prefix

\* An isTsOrJsFile that compiles every file.
IsTsOrJsFileAcceptsAll(file) == TRUE

\* isTsOrJsFile.
IsTsOrJsFile(file) == EndsWith(file, ".ts") \/ EndsWith(file, ".js")

\* The segments of a path between its slashes, from character i on, with the
\* segment read so far in acc.
RECURSIVE PathSegments(_, _, _)
PathSegments(s, i, acc) ==
  IF i > Len(s) THEN <<acc>>
  ELSE IF SubSeq(s, i, i) = "/"
       THEN <<acc>> \o PathSegments(s, i + 1, "")
       ELSE PathSegments(s, i + 1, acc \o SubSeq(s, i, i))

\* A URL path without its "." and ".." segments (RFC 3986, 5.2.4), with the
\* segments kept so far in out.
RECURSIVE RemoveDotSegments(_, _)
RemoveDotSegments(segs, out) ==
  IF segs = <<>> THEN out
  ELSE IF Head(segs) = "." THEN RemoveDotSegments(Tail(segs), out)
  ELSE IF Head(segs) = ".."
       THEN RemoveDotSegments(Tail(segs),
                              IF out = <<>> THEN out
                              ELSE SubSeq(out, 1, Len(out) - 1))
  ELSE RemoveDotSegments(Tail(segs), Append(out, Head(segs)))

RECURSIVE JoinPath(_)
JoinPath(segs) ==
  IF segs = <<>> THEN ""
  ELSE IF Len(segs) = 1 THEN segs[1]
  ELSE segs[1] \o "/" \o JoinPath(Tail(segs))

\* A URL resolution that does not normalise the path.
UrlOfUnnormalised(reference) == Origin \o "/" \o reference

\* new URL(reference, self.origin).href for a reference that is a relative or
\* absolute path: the path is resolved against the origin's root.
NewUrl(reference) ==
  LET path == IF StartsWith(reference, "/")
              THEN SubSeq(reference, 2, Len(reference)) ELSE reference
  IN Origin \o "/" \o JoinPath(RemoveDotSegments(PathSegments(path, 1, ""), <<>>))

\* The references the worker makes URLs of: the names of the project files,
\* the non-bare module specifiers, and the paths under node_modules/ of the
\* type declarations.
References ==
  InputNames \cup ModuleSpecifiers
    \cup {"node_modules/" \o sp : sp \in TypeSpecifiers}
    \cup {"node_modules/" \o sp \o "/index.d.ts" : sp \in ModuleSpecifiers}

\* NewUrl of each reference, computed once.
UrlTable == [reference \in References |-> NewUrl(reference)]

UrlOf(reference) == UrlTable[reference]

\* Whether a module specifier is bare: neither a relative or absolute path nor
\* a URL.
IsBareSpecifier(specifier) ==
  /\ ~StartsWith(specifier, "./")
  /\ ~StartsWith(specifier, "../")
  /\ ~StartsWith(specifier, "/")
  /\ ~StartsWith(specifier, "https://")

\* ModuleResolver.resolve(specifier, self.origin): a specifier of the import
\* map resolves to its mapped URL, any other bare specifier to unpkg.com, and
\* a path to its URL.
Resolve(importMap, specifier) ==
  IF specifier \in DOMAIN importMap
  THEN [type |-> "bare", url |-> importMap[specifier]]
  ELSE IF IsBareSpecifier(specifier)
  THEN [type |-> "bare", url |-> "https://unpkg.com/" \o specifier \o "?module"]
  ELSE [type |-> "url", url |-> UrlOf(specifier)]

\* readFile's undefined.
NoContent == <<Stmt("undefined", "")>>

\* A fileExists that only tests that the map has a record.
FileExistsAnyRecord(files, fileName) == fileName \in DOMAIN files

\* WorkerLanguageServiceHost.fileExists.
FileExists(files, fileName) ==
  fileName \in DOMAIN files /\ files[fileName].status = "resolved"

\* WorkerLanguageServiceHost.readFile.
ReadFile(files, fileName) ==
  IF fileName \in DOMAIN files /\ files[fileName].status = "resolved"
  THEN files[fileName].content
  ELSE NoContent

\* WorkerLanguageServiceHost.getScriptSnapshot: the text of the snapshot, or
\* undefined.
GetScriptSnapshot(files, fileName) ==
  IF ~FileExists(files, fileName) THEN NoContent
  ELSE ReadFile(files, fileName)

\* WorkerLanguageServiceHost.getScriptFileNames.
GetScriptFileNames(files) == {name \in DOMAIN files : IsTsOrJsFile(name)}

Resolved(content) == [status |-> "resolved", content |-> content]

\* inputFiles of compileProject: the .ts and .js files, each with its URL.
RECURSIVE InputFilesOf(_)
InputFilesOf(files) ==
  IF files = <<>> THEN <<>>
  ELSE IF IsTsOrJsFile(Head(files).name)
       THEN <<[file |-> Head(files), url |-> UrlOf(Head(files).name)]>>
            \o InputFilesOf(Tail(files))
       ELSE InputFilesOf(Tail(files))

\* The first loop of compileProject: every input file is set in loadedFiles.
RECURSIVE LoadInputs(_, _)
LoadInputs(loaded, inputs) ==
  IF inputs = <<>> THEN loaded
  ELSE LoadInputs(MapSet(loaded, Head(inputs).url,
                         Resolved(Head(inputs).file.content)),
                  Tail(inputs))

\* languageService.getSyntacticDiagnostics(url): one diagnostic per statement
\* with a syntax error of the file the host serves under url, identified by
\* the statement's position.
SyntacticDiagnostics(files, url) ==
  LET text == GetScriptSnapshot(files, url)
  IN {i \in DOMAIN text : text[i].kind = "bad"}

\* TypeScript's module resolution asks the host for the file a specifier
\* names: a package's index.d.ts under node_modules, or the file at a path.
ModuleFound(files, specifier) ==
  IF IsBareSpecifier(specifier)
  THEN FileExists(files, UrlOf("node_modules/" \o specifier \o "/index.d.ts"))
  ELSE FileExists(files, UrlOf(specifier))

\* languageService.getSemanticDiagnostics(url): one diagnostic per import or
\* export ... from whose module the host cannot serve.
SemanticDiagnostics(files, url) ==
  LET text == GetScriptSnapshot(files, url)
  IN {i \in DOMAIN text :
        /\ text[i].kind \in {"import", "export"}
        /\ ~ModuleFound(files, text[i].spec)}

\* A visitor that rewrites export ... from declarations as well.
BareSpecifierTransformAlsoExports(importMap, node) ==
  IF node.kind \in {"import", "export"}
  THEN LET r == Resolve(importMap, node.spec)
       IN IF r.type = "bare" THEN [node EXCEPT !.spec = r.url] ELSE node
  ELSE node

\* A visitor that rewrites no import.
BareSpecifierTransformNone(importMap, node) == node

\* The visitor of makeBareSpecifierTransformVisitor, applied to a statement.
BareSpecifierTransform(importMap, node) ==
  IF node.kind = "import"
  THEN LET r == Resolve(importMap, node.spec)
       IN IF r.type = "bare" THEN [node EXCEPT !.spec = r.url] ELSE node
  ELSE node

\* The name TypeScript emits the JavaScript of a source file under.
EmitName(url) ==
  IF EndsWith(url, ".ts") THEN SubSeq(url, 1, Len(url) - 3) \o ".js" ELSE url

\* program.emit(sourceFile, writeFile, ..., transformers): the emitted text.
EmitText(files, importMap, url) ==
  LET text == GetScriptSnapshot(files, url)
  IN [i \in DOMAIN text |-> BareSpecifierTransform(importMap, text[i])]

\* The second loop of compileProject: the result after the input files from
\* position i on have been diagnosed and emitted.
RECURSIVE FastLoop(_, _, _, _, _)
FastLoop(loaded, importMap, inputs, i, acc) ==
  IF i > Len(inputs) THEN acc
  ELSE FastLoop(loaded, importMap, inputs, i + 1,
         [files |-> MapSet(acc.files, EmitName(inputs[i].url),
                           EmitText(loaded, importMap, inputs[i].url)),
          diagnostics |-> MapSet(acc.diagnostics, inputs[i].file.name,
                                 SyntacticDiagnostics(loaded, inputs[i].url))])

\* A slow pass that stores no fetched file.
StoreTypesNothing(loaded, types) == loaded

\* The first loop of the slow pass: every fetched (specifier, content) pair is
\* set in loadedFiles under the URL of node_modules/<specifier>.
StoreTypes(loaded, types) ==
  LET urls == {UrlOf("node_modules/" \o sp) : sp \in DOMAIN types}
      from(u) == CHOOSE sp \in DOMAIN types : UrlOf("node_modules/" \o sp) = u
  IN [u \in DOMAIN loaded \cup urls |->
        IF u \in urls THEN Resolved(types[from(u)]) ELSE loaded[u]]

\* The second loop of the slow pass: semantic diagnostics per input file.
RECURSIVE SlowLoop(_, _, _, _)
SlowLoop(loaded, inputs, i, acc) ==
  IF i > Len(inputs) THEN acc
  ELSE SlowLoop(loaded, inputs, i + 1,
                MapSet(acc, inputs[i].file.name,
                       SemanticDiagnostics(loaded, inputs[i].url)))

NoResult == [files |-> EmptyMap, diagnostics |-> EmptyMap, settled |-> FALSE]

\* One file system for all calls: a new call starts from the files of the
\* call before it.
SharedFileSystem ==
  IF calls = <<>> THEN EmptyMap ELSE calls[Len(calls)].loadedFiles

\* The file system of a call, `new Map<string, FileRecord>()`: its own, and
\* empty.
NewFileSystem == EmptyMap

\* The locals of a call as it starts.
NewCall ==
  [pc |-> "setup", files |-> <<>>, importMap |-> NoImports,
   inputFiles |-> <<>>, loadedFiles |-> EmptyMap,
   emittedFiles |-> EmptyMap, fastDiagnostics |-> EmptyMap,
   result |-> NoResult, fetch |-> "none", fetchedAt |-> "none",
   types |-> EmptyMap,
   slowCalls |-> 0, slowDiagnostics |-> EmptyMap, callsAtSlow |-> 0]

\* Whether call c has been made: calls holds the locals of the calls made so
\* far, in the order they were made.
Made(c) == c \in DOMAIN calls

WkInit ==
  /\ calls = <<>>
  /\ running = None

\* compileProject is called with files and importMap: the resolver, the
\* file system and the fetcher are made, the input files are loaded and their
\* typings requested (the code up to the fast compile). Call c is the c-th
\* call made; a call starts only when no other call's synchronous code is
\* running.
Begin(c, files, importMap) ==
  /\ running = None
  /\ c = Len(calls) + 1
  /\ LET inputs == InputFilesOf(files)
     IN calls' = Append(calls,
                    [NewCall EXCEPT !.files = files,
                                    !.importMap = importMap,
                                    !.inputFiles = inputs,
                                    !.loadedFiles =
                                       LoadInputs(NewFileSystem, inputs)])
  /\ running' = c
  /\ WkOnly

\* The fast compile: the language service yields a program or not (then the
\* call throws); with a program, every input file gets its syntactic
\* diagnostics and is emitted through the transformer.
FastPass(c, hasProgram) ==
  /\ running = c
  /\ calls[c].pc = "setup"
  /\ IF hasProgram
     THEN LET r == FastLoop(calls[c].loadedFiles, calls[c].importMap,
                            calls[c].inputFiles, 1,
                            [files |-> EmptyMap, diagnostics |-> EmptyMap])
          IN /\ calls' = [calls EXCEPT ![c] =
                            [@ EXCEPT !.pc = "compiled",
                                      !.emittedFiles = r.files,
                                      !.fastDiagnostics = r.diagnostics]]
             /\ UNCHANGED running
     ELSE /\ calls' = [calls EXCEPT ![c].pc = "rejected"]
          /\ running' = None
  /\ WkOnly

\* The async arrow function is called: it runs up to its await of
\* typesFetcher.getFiles(), whose promise is now pending.
StartSlow(c) ==
  /\ running = c
  /\ calls[c].pc = "compiled"
  /\ calls' = [calls EXCEPT ![c] = [@ EXCEPT !.pc = "awaiting",
                                            !.fetch = "pending"]]
  /\ UNCHANGED running
  /\ WkOnly

\* A compileProject that awaits the types before it returns.
ReturnReadyAwaitsTypes(c) ==
  calls[c].pc = "awaiting" /\ calls[c].fetch = "resolved"

\* When the return statement of compileProject is reached.
ReturnReady(c) == calls[c].pc = "awaiting"

\* compileProject returns: its promise is resolved with the emitted files and
\* the fast diagnostics, and its synchronous code ends.
Return(c) ==
  /\ running = c
  /\ ReturnReady(c)
  /\ calls' = [calls EXCEPT ![c] =
                 [@ EXCEPT !.pc = "returned",
                           !.result = [files |-> calls[c].emittedFiles,
                                       diagnostics |-> calls[c].fastDiagnostics,
                                       settled |-> TRUE]]]
  /\ running' = None
  /\ WkOnly

\* typesFetcher.getFiles() resolves with the declaration files named by
\* specifiers, at any time from the await on: while the synchronous code of
\* the call is still running (a promise that is already resolved when it is
\* awaited) or after it. fetchedAt records where the call was.
TypesResolve(c, specifiers) ==
  /\ Made(c)
  /\ calls[c].fetch = "pending"
  /\ calls' = [calls EXCEPT ![c] =
                 [@ EXCEPT !.fetch = "resolved",
                           !.fetchedAt = calls[c].pc,
                           !.types = [sp \in specifiers |-> TypeContent(sp)]]]
  /\ UNCHANGED running
  /\ WkOnly

\* typesFetcher.getFiles() rejects.
TypesFail(c) ==
  /\ Made(c)
  /\ calls[c].fetch = "pending"
  /\ calls' = [calls EXCEPT ![c].fetch = "failed"]
  /\ UNCHANGED running
  /\ WkOnly

\* A slow pass that does not wait for getFiles().
SlowReadyWithoutTypes(c) ==
  /\ running = None
  /\ Made(c)
  /\ calls[c].pc = "returned"
  /\ calls[c].fetch \in {"pending", "resolved"}

\* A continuation that runs as soon as getFiles() has resolved, in the middle
\* of the synchronous code of the call.
SlowReadyMidCall(c) ==
  /\ Made(c)
  /\ calls[c].pc \in {"awaiting", "returned"}
  /\ calls[c].fetch = "resolved"

\* When the async arrow function resumes after its await: getFiles() has
\* resolved and no synchronous code is running.
SlowReady(c) ==
  /\ running = None
  /\ Made(c)
  /\ calls[c].pc = "returned"
  /\ calls[c].fetch = "resolved"

\* The rest of the async arrow function: the fetched files are stored, the
\* semantic diagnostics computed and slowDiagnosticsCallback invoked.
\* callsAtSlow records how many calls had been made by then.
SlowPass(c) ==
  /\ SlowReady(c)
  /\ LET loaded == StoreTypes(calls[c].loadedFiles, calls[c].types)
     IN calls' = [calls EXCEPT ![c] =
                    [@ EXCEPT !.pc = "done",
                              !.loadedFiles = loaded,
                              !.slowDiagnostics =
                                 SlowLoop(loaded, calls[c].inputFiles, 1,
                                          EmptyMap),
                              !.slowCalls = @ + 1,
                              !.callsAtSlow = Len(calls)]]
  /\ UNCHANGED running
  /\ WkOnly

\* The steps of the calls in C, called with projects and import maps from
\* the given sets.
WkStepsOver(C, projects, importMaps) ==
  \/ \E c \in C, files \in projects, importMap \in importMaps :
       Begin(c, files, importMap)
  \/ \E c \in C, hasProgram \in BOOLEAN : FastPass(c, hasProgram)
  \/ \E c \in C : StartSlow(c)
  \/ \E c \in C : Return(c)
  \/ \E c \in C, specifiers \in SUBSET TypeSpecifiers :
       TypesResolve(c, specifiers)
  \/ \E c \in C : TypesFail(c)
  \/ \E c \in C : SlowPass(c)

WkSteps(C) == WkStepsOver(C, ProjectInputs, ImportMaps)

WkNext == WkSteps(SoloCalls)

\* Projects for calls that overlap: both may hold a file a.ts, with the same
\* or with different content, and so use the same URL.
PairProjects ==
  {<<[name |-> "a.ts", content |-> SrcImports]>>,
   <<[name |-> "a.ts", content |-> SrcBroken]>>,
   <<[name |-> "b.js", content |-> SrcImports],
     [name |-> "c.html", content |-> SrcBroken]>>}

\* Any number of calls, each made once the synchronous code of the one before
\* has ended, their fetches and slow passes in any order.
PairNext == WkStepsOver(CallIds, PairProjects, {LitImports})

\* The JavaScript engine runs code that is ready to completion: a call's
\* synchronous code, and the continuation of a resolved await. Nothing makes
\* a call arrive or a fetch finish.
WkFairness ==
  \A c \in CallIds :
    /\ WF_vars(\E hasProgram \in BOOLEAN : FastPass(c, hasProgram))
    /\ WF_vars(StartSlow(c))
    /\ WF_vars(Return(c))
    /\ WF_vars(SlowPass(c))

(***************************************************************************)
(* A WorkerLanguageServiceHost over an arbitrary files map                 *)
(***************************************************************************)

HostPaths == {UrlOf("a.ts"), UrlOf("b.js"), UrlOf("node_modules/lit/index.d.ts")}

\* The records of the FileRecord type; "absent" stands for no record.
FileRecords ==
  {[status |-> "absent"], [status |-> "pending"],
   [status |-> "redirected", redirectedUrl |-> UrlOf("b.js")],
   Resolved(SrcBroken), Resolved(<<>>)}

\* The Map that holds the records of f other than "absent".
AsMap(f) == [path \in {q \in DOMAIN f : f[q].status # "absent"} |-> f[path]]

NoAnswer == [op |-> "none", path |-> "", told |-> FALSE, text |-> NoContent]

HostIdle ==
  /\ hostFiles = EmptyMap
  /\ hostAnswer = NoAnswer

HostInit ==
  /\ hostFiles \in {AsMap(f) : f \in [HostPaths -> FileRecords]}
  /\ hostAnswer = NoAnswer

AskFileExists(path) ==
  /\ hostAnswer' = [op |-> "fileExists", path |-> path,
                    told |-> FileExists(hostFiles, path), text |-> NoContent]
  /\ UNCHANGED hostFiles
  /\ HostOnly

AskReadFile(path) ==
  /\ hostAnswer' = [op |-> "readFile", path |-> path, told |-> FALSE,
                    text |-> ReadFile(hostFiles, path)]
  /\ UNCHANGED hostFiles
  /\ HostOnly

AskScriptSnapshot(path) ==
  /\ hostAnswer' = [op |-> "getScriptSnapshot", path |-> path, told |-> FALSE,
                    text |-> GetScriptSnapshot(hostFiles, path)]
  /\ UNCHANGED hostFiles
  /\ HostOnly

HostNext ==
  \/ \E path \in HostPaths : AskFileExists(path)
  \/ \E path \in HostPaths : AskReadFile(path)
  \/ \E path \in HostPaths : AskScriptSnapshot(path)

(***************************************************************************)
(* makeLspDiagnostic                                                       *)
(***************************************************************************)

\* Bounds on the diagnostics converted: the largest start and length.
MaxStart == 4
MaxLength == 3

\* An optional property: <<>> is undefined, <<v>> is defined with value v.
Undefined == <<>>
Some(v) == <<v>>
Defined(o) == o # Undefined
ValueOf(o) == o[1]

\* The source file of the diagnostics: the lengths of its lines, each line
\* but the last followed by one line break.
SourceFileLines == <<2, 0, 3>>

\* The position at which each line of the file starts.
RECURSIVE LineStarts(_)
LineStarts(lines) ==
  IF lines = <<>> THEN <<>>
  ELSE IF Len(lines) = 1 THEN <<0>>
  ELSE LET before == LineStarts(SubSeq(lines, 1, Len(lines) - 1))
       IN Append(before, before[Len(before)] + lines[Len(lines) - 1] + 1)

\* file.getLineAndCharacterOfPosition(position): the last line starting at or
\* before the position, and the offset of the position in it, both 0-based.
GetLineAndCharacterOfPosition(lines, position) ==
  LET starts == LineStarts(lines)
      line == CHOOSE i \in DOMAIN starts :
                /\ starts[i] <= position
                /\ \A j \in DOMAIN starts : starts[j] <= position => j <= i
  IN [character |-> position - starts[line], line |-> line - 1]

Origin00 == [character |-> 0, line |-> 0]

DiagnosticCategories == {"Error", "Warning", "Message", "Suggestion"}

diagnosticCategoryMapping ==
  [category \in DiagnosticCategories |->
     IF category = "Error" THEN 1
     ELSE IF category = "Warning" THEN 2
     ELSE IF category = "Message" THEN 3
     ELSE 4]

DiagnosticCodes == {2307}
DiagnosticSources == {Undefined, Some("plugin")}

\* The diagnostics the type ts.Diagnostic admits: file, start and length are
\* each optional on their own.
TsDiagnostics ==
  [code : DiagnosticCodes,
   category : DiagnosticCategories,
   source : DiagnosticSources,
   file : {Undefined, Some(SourceFileLines)},
   start : {Undefined} \cup {Some(n) : n \in 0..MaxStart},
   length : {Undefined} \cup {Some(n) : n \in 0..MaxLength}]

RangeStart(d) ==
  IF Defined(d.file) /\ Defined(d.start)
  THEN GetLineAndCharacterOfPosition(ValueOf(d.file), ValueOf(d.start))
  ELSE Origin00

RangeEnd(d) ==
  IF Defined(d.file) /\ Defined(d.start) /\ Defined(d.length)
  THEN GetLineAndCharacterOfPosition(ValueOf(d.file),
                                     ValueOf(d.start) + ValueOf(d.length))
  ELSE Origin00

makeLspDiagnostic(d) ==
  [code |-> d.code,
   source |-> IF Defined(d.source) THEN ValueOf(d.source) ELSE "typescript",
   severity |-> diagnosticCategoryMapping[d.category],
   range |-> [start |-> RangeStart(d), end |-> RangeEnd(d)]]

LspIdle ==
  /\ tsDiagnostic = <<>>
  /\ lspDiagnostic = <<>>

LspInit ==
  /\ tsDiagnostic \in {Some(d) : d \in TsDiagnostics}
  /\ lspDiagnostic = <<>>

\* One call makeLspDiagnostic(tsDiagnostic).
Convert ==
  /\ tsDiagnostic # <<>>
  /\ lspDiagnostic = <<>>
  /\ lspDiagnostic' = Some(makeLspDiagnostic(ValueOf(tsDiagnostic)))
  /\ UNCHANGED tsDiagnostic
  /\ LspOnly

LspNext == Convert

(***************************************************************************)
(* Specifications                                                          *)
(***************************************************************************)

Init == TabInit /\ EdInit /\ WkInit /\ HostIdle /\ LspIdle

\* The tab bar on its own.
TabSpec == Init /\ [][TabNext]_vars

\* The tab bar with its keyboard navigation.
KeyNext ==
  \/ TabNext
  \/ \E key \in Keys : Keydown(key)

KeySpec == Init /\ [][KeyNext]_vars

\* The file editor on its own.
EdSpec == Init /\ [][EdNext]_vars

\* The worker on its own.
WkSpec == Init /\ [][WkNext]_vars

\* The worker with the engine's run-to-completion as fairness.
WkFairSpec == Init /\ [][WkNext]_vars /\ WkFairness

\* The worker with overlapping calls.
PairSpec == Init /\ [][PairNext]_vars

\* A language service host over any files map.
HostSpecInit == TabInit /\ EdInit /\ WkInit /\ HostInit /\ LspIdle

HostSpec == HostSpecInit /\ [][HostNext]_vars

\* makeLspDiagnostic applied to any diagnostic.
LspSpecInit == TabInit /\ EdInit /\ WkInit /\ HostIdle /\ LspInit

LspSpec == LspSpecInit /\ [][LspNext]_vars

(***************************************************************************)
(* Claims about the tab bar                                                *)
(***************************************************************************)

\* C5: when the pending update of a tab T whose active property was set to
\* true runs while T is slotted in a bar whose active tab is P (defined and
\* different from T), then once the update and its 'tabchange' event have been
\* processed T.active is true, P.active is false and the bar's active getter
\* returns T.
C5_ActivationPropagates ==
  (/\ tabLast.op = "update"
   /\ tabLast.heard
   /\ tabLast.prev # None
   /\ tabLast.prev # tabLast.tab)
  => (/\ tabActive[tabLast.tab]
      /\ ~tabActive[tabLast.prev]
      /\ BarGetActive = tabLast.tab)

\* C5 witness: an update of T was just processed by a bar whose active tab
\* was another tab P that was itself still flagged active.
C5_Witness ==
  /\ tabLast.op = "update"
  /\ tabLast.heard
  /\ tabLast.prev # None
  /\ tabLast.prev # tabLast.tab
  /\ tabLast.demoted
  /\ tabLast.detail = [tab |-> tabLast.tab, previous |-> tabLast.prev]

\* C6: assigning the bar's active property a tab T different from the current
\* active tab P sets P.active to false (when P is defined), sets T.active to
\* true and makes the getter return T; assigning undefined sets P.active to
\* false and makes the getter return undefined; assigning the value the getter
\* already returns changes no tab's active flag. (A step that records op
\* "barSet" is an assignment of tabLast'.tab to the bar's active property.)
C6_BarActiveSetter ==
  [][tabLast'.op = "barSet" =>
       LET tab == tabLast'.tab
       IN IF tab = BarGetActive
          THEN tabActive' = tabActive /\ BarGetActive' = BarGetActive
          ELSE /\ BarGetActive' = tab
               /\ (BarGetActive # None => ~tabActive'[BarGetActive])
               /\ (tab # None => tabActive'[tab])]_vars

\* C6 witness: the setter has just replaced a defined active tab P, which was
\* flagged active, by another tab T.
C6_Witness ==
  /\ tabLast.op = "barSet"
  /\ tabLast.prev # None
  /\ tabLast.tab # None
  /\ tabLast.tab # tabLast.prev
  /\ tabLast.demoted
  /\ BarGetActive = tabLast.tab

\* C7: the bar's tabs carry their 0-indexed positions: every tab of _tabs has
\* idx equal to its position, _tabs is the slot's assigned elements whenever
\* no slotchange is waiting to be handled, and so right after a slotchange is
\* handled the idx values of the assigned tabs are exactly 0..n-1.
C7_IdxIsPosition ==
  /\ \A i \in DOMAIN barTabs : tabIdx[barTabs[i]] = i - 1
  /\ ~slotchangePending => barTabs = slotted
  /\ tabLast.op = "slotchange" =>
       /\ \A i \in DOMAIN slotted : tabIdx[slotted[i]] = i - 1
       /\ {tabIdx[slotted[i]] : i \in DOMAIN slotted} = 0..(Len(slotted) - 1)

\* C7 witness: a slotchange was just handled for a bar with at least two tabs
\* that are not in creation order.
C7_Witness ==
  /\ tabLast.op = "slotchange"
  /\ Len(slotted) >= 2
  /\ slotted[1] > slotted[2]
  /\ tabIdx[slotted[2]] = 1

\* The positions of the assigned tabs whose active flag is set.
ActivePositions == {i \in DOMAIN slotted : tabActive[slotted[i]]}

\* The least element of a non-empty set of positions.
FirstOf(S) == CHOOSE i \in S : \A j \in S : i <= j

\* C10: handling a slotchange leaves at most one assigned tab active: the
\* first tab in slot order that was active becomes the bar's active tab and
\* stays active, every tab after it is inactive, and with no active assigned
\* tab the bar's active tab becomes undefined; the bar dispatches 'tabchange'
\* with detail {tab: undefined, previous: former active tab} exactly when no
\* assigned tab is active and the bar had an active tab before. (A step that
\* records op "slotchange" is a run of _onSlotchange.)
C10_SlotchangeSingleActive ==
  [][tabLast'.op = "slotchange" =>
       /\ Cardinality(ActivePositions') <= 1
       /\ IF ActivePositions # {}
          THEN /\ BarGetActive' = slotted[FirstOf(ActivePositions)]
               /\ ActivePositions' = {FirstOf(ActivePositions)}
          ELSE BarGetActive' = None
       /\ tabLast'.fired <=> (ActivePositions = {} /\ BarGetActive # None)
       /\ tabLast'.fired =>
            tabLast'.detail = [tab |-> None, previous |-> BarGetActive]]_vars

\* C10 witness: a slotchange was just handled in which a later active tab was
\* deactivated in favour of the first active one.
C10_Witness ==
  /\ tabLast.op = "slotchange"
  /\ tabLast.demoted
  /\ Len(slotted) >= 2
  /\ BarGetActive = slotted[1]
  /\ ~tabActive[slotted[2]]

\* C10 second case: a slotchange was just handled that left the bar without
\* an active tab and announced it.
C10_WitnessDispatch ==
  /\ tabLast.op = "slotchange"
  /\ tabLast.fired
  /\ BarGetActive = None

\* The tab at 0-based index i of the bar's tab list.
TabAt(i) == barTabs[i + 1]

\* C11 (as claimed): a keydown moves the active tab by one position without
\* wrapping: with i the index of the active tab (0 when there is none) and n
\* the number of the bar's tabs, ArrowLeft with i > 0 activates and focuses
\* the tab at i - 1, ArrowRight with i < n - 1 the tab at i + 1, every other
\* keydown changes no tab, and the index keydown chooses is the index of an
\* element of the bar's tab list. (A step that records op "keydown" is a run
\* of _onKeydown.)
C11_KeydownMovesByOne ==
  [][tabLast'.op = "keydown" =>
       LET key == tabLast'.key
           i == IF BarGetActive = None THEN 0 ELSE tabIdx[BarGetActive]
           n == Len(barTabs)
       IN /\ tabLast'.newIdx # i => tabLast'.newIdx + 1 \in DOMAIN barTabs
          /\ ~tabLast'.threw
          /\ IF key = "ArrowLeft" /\ i > 0
             THEN /\ i - 1 < n
                  /\ tabActive'[TabAt(i - 1)]
                  /\ tabLast'.focused = TabAt(i - 1)
             ELSE IF key = "ArrowRight" /\ i < n - 1
             THEN /\ tabActive'[TabAt(i + 1)]
                  /\ tabLast'.focused = TabAt(i + 1)
             ELSE /\ tabActive' = tabActive
                  /\ tabLast'.focused = None]_vars

(***************************************************************************)
(* Claims about the file editor                                            *)
(***************************************************************************)

\* The files of the editor's current project, as the claims speak of them.
ProjectFilesNow == IF edProject = None THEN <<>> ELSE projFiles[edProject]

\* The positions of the current project's files that are named filename.
FilesNamedFilename ==
  {i \in DOMAIN ProjectFilesNow : ProjectFilesNow[i].name = filename}

\* C8: what render() binds to the code editor: when filename is unset
\* (undefined or empty) or names no file of the current project, the value is
\* the empty string and the editor is read-only whatever the readonly
\* property; otherwise the value is the content of the file named filename and
\* the editor is read-only exactly when readonly is true.
C8_EditorShowsFile ==
  edLast.op = "update" =>
    IF filename \in {NoName, ""} \/ FilesNamedFilename = {}
    THEN shown.value = "" /\ shown.readonly = TRUE
    ELSE /\ \E i \in FilesNamedFilename :
              shown.value = ProjectFilesNow[i].content
         /\ shown.readonly <=> readonly

\* C8 witness: the editor has just rendered the second file of a project, as
\* named by filename, editable.
C8_Witness ==
  /\ edLast.op = "update"
  /\ Len(ProjectFilesNow) = 2
  /\ filename = ProjectFilesNow[2].name
  /\ shown.value = ProjectFilesNow[2].content
  /\ ProjectFilesNow[1].content # ProjectFilesNow[2].content
  /\ ~shown.readonly

\* C8 second case: the editor has just rendered with a filename that names
\* no file of a project that has files, while readonly is false.
C8_WitnessNoFile ==
  /\ edLast.op = "update"
  /\ Len(ProjectFilesNow) > 0
  /\ filename # NoName
  /\ FilesNamedFilename = {}
  /\ ~readonly
  /\ shown = [value |-> "", readonly |-> TRUE]

\* C12: once a change of _project is processed, the editor's three handlers
\* are registered on exactly the current project, if any, and on no other
\* project; so no event of a former project reaches the editor (a project's
\* event runs a handler only through a registered listener).
C12_ListenersOnCurrentProject ==
  ~edChanged =>
    \A p \in Projects :
      listeners[p] = IF p = edProject THEN ProjectEvents ELSE {}

\* C12 witness: an update has just processed a change from project 1, which
\* had the listeners, to project 2.
C12_Witness ==
  /\ edLast.op = "update"
  /\ edLast.old = 1
  /\ edProject = 2
  /\ listeners[1] = {}
  /\ listeners[2] = ProjectEvents

\* C13: an edit is written only to the file named filename and saved
\* debounced: on a change event of the code editor, when the current project
\* has a file named filename, that file's content becomes the editor's value,
\* no other content changes and the project's saveDebounced is called once;
\* otherwise no content changes and saveDebounced is not called. Apart from
\* the page's own assignments, filename changes only from undefined to the
\* name of the project's first file, when a filesChanged event or a change of
\* project is handled; once set it is never overwritten, also when no file
\* has that name. (A step that records op "edit" is a run of _onEdit.)
C13_EditWritesNamedFile ==
  [][/\ edLast'.op = "edit" =>
          IF FilesNamedFilename # {}
          THEN /\ \E i \in FilesNamedFilename :
                    projFiles' = [projFiles EXCEPT
                                    ![edProject][i].content = shown'.value]
               /\ edLast'.saved = edProject
          ELSE /\ projFiles' = projFiles
               /\ edLast'.saved = None
     /\ filename' # filename =>
          \/ \E n \in FilenameValues : SetFilename(n)
          \/ /\ filename = NoName
             /\ ProjectFilesNow' # <<>>
             /\ filename' = ProjectFilesNow'[1].name
             /\ projFiles' # projFiles \/ edLast'.op = "update"]_vars

\* C13 witness: an edit was just written to the second of two files, the one
\* named filename, and saved.
C13_Witness ==
  /\ edLast.op = "edit"
  /\ edLast.saved = edProject
  /\ Len(ProjectFilesNow) = 2
  /\ ProjectFilesNow[2].name = filename
  /\ ProjectFilesNow[2].content = shown.value
  /\ ProjectFilesNow[1].content # shown.value

\* C13 second case: an edit arrived while filename named a file that is no
\* longer in the project, and was neither written nor saved.
C13_WitnessNoFile ==
  /\ edLast.op = "edit"
  /\ edLast.saved = None
  /\ filename \in FileNames
  /\ ProjectFilesNow # <<>>
  /\ FilesNamedFilename = {}
  /\ listeners[edProject] = ProjectEvents
  /\ ProjectFilesNow[1].content # shown.value

(***************************************************************************)
(* Claims about makeLspDiagnostic                                          *)
(***************************************************************************)

\* Position a is before position b: on an earlier line, or on the same line
\* at an earlier character.
Before(a, b) ==
  \/ a.line < b.line
  \/ a.line = b.line /\ a.character < b.character

C1_FastPassNotBlocked ==
  \A c \in CallIds :
    (Made(c) /\ calls[c].pc = "compiled")
      ~> (Made(c) /\ calls[c].result.settled)

\* C1 witness: a call has returned emitted files and diagnostics while its
\* getFiles() promise is still pending.
C1_Witness ==
  \E c \in DOMAIN calls :
    /\ calls[c].result.settled
    /\ calls[c].fetch = "pending"
    /\ calls[c].result.files = calls[c].emittedFiles
    /\ calls[c].result.diagnostics = calls[c].fastDiagnostics
    /\ DOMAIN calls[c].result.files # {}

\* What C2 says of call c in one state.
SlowPassAfterTypes(c) ==
  /\ calls[c].slowCalls <= 1
  /\ calls[c].slowCalls = 0 => calls[c].slowDiagnostics = EmptyMap
  /\ calls[c].slowCalls = 1 =>
       /\ calls[c].fetch = "resolved"
       /\ \A sp \in DOMAIN calls[c].types :
            LET url == Origin \o "/node_modules/" \o sp
            IN /\ url \in DOMAIN calls[c].loadedFiles
               /\ calls[c].loadedFiles[url] =
                    [status |-> "resolved", content |-> calls[c].types[sp]]

\* C2: the slow pass runs only once the types have landed: the semantic
\* diagnostics are computed and slowDiagnosticsCallback is invoked only after
\* getFiles() resolved and every (specifier, content) pair it returned is a
\* 'resolved' record of the call's file system under node_modules/<specifier>;
\* the callback is never invoked twice, and once getFiles() has resolved it
\* is invoked.
C2_SlowPassOnceTypesLanded ==
  /\ [](\A c \in DOMAIN calls : SlowPassAfterTypes(c))
  /\ \A c \in CallIds :
       (Made(c) /\ calls[c].fetch = "resolved")
         ~> (Made(c) /\ calls[c].slowCalls = 1)

\* C2 witness: the callback was invoked for a call whose getFiles() resolved
\* with two declaration files and whose project has a compiled file.
C2_Witness ==
  \E c \in DOMAIN calls :
    /\ calls[c].slowCalls = 1
    /\ DOMAIN calls[c].types = TypeSpecifiers
    /\ DOMAIN calls[c].slowDiagnostics # {}

\* The module specifier the claim expects in the output for specifier sp.
ExpectedSpecifier(importMap, sp) ==
  IF Resolve(importMap, sp).type = "bare"
  THEN Resolve(importMap, sp).url
  ELSE sp

\* C3 (as claimed): in the emitted output of every compiled input file, each
\* module specifier the resolver classifies as 'bare' is replaced by the URL
\* the resolver returned for it, and every other specifier is unchanged.
C3_BareSpecifiersRewritten ==
  \A c \in DOMAIN calls :
    calls[c].result.settled =>
      \A k \in DOMAIN calls[c].inputFiles :
        LET url == calls[c].inputFiles[k].url
            text == ReadFile(calls[c].loadedFiles, url)
            out == calls[c].result.files[EmitName(url)]
        IN \A i \in DOMAIN text :
             text[i].kind \in {"import", "export"} =>
               out[i].spec = ExpectedSpecifier(calls[c].importMap, text[i].spec)

\* The names of InputNames that end in '.ts' or '.js', with the URL each is
\* loaded under and the URL its output is emitted under.
CompiledNames == {"a.ts", "./a.ts", "b.js"}

LoadedUrl(name) ==
  CASE name = "a.ts" -> "https://playground.test/a.ts"
    [] name = "./a.ts" -> "https://playground.test/a.ts"
    [] name = "b.js" -> "https://playground.test/b.js"

EmittedUrl(name) ==
  CASE name = "a.ts" -> "https://playground.test/a.js"
    [] name = "./a.ts" -> "https://playground.test/a.js"
    [] name = "b.js" -> "https://playground.test/b.js"

NamesOf(files) == {files[i].name : i \in DOMAIN files}

\* C4: compileProject's result covers exactly the compiled files: the fast
\* diagnostics are keyed by exactly the names of the input files ending in
\* '.ts' or '.js', only those files are emitted and loaded into the virtual
\* file system as inputs, and the map passed to slowDiagnosticsCallback has
\* the key set of the fast diagnostics.
C4_OnlyCompiledFiles ==
  \A c \in DOMAIN calls :
    LET compiled == NamesOf(calls[c].files) \cap CompiledNames
    IN /\ calls[c].pc \in {"compiled", "awaiting", "returned"} =>
            /\ DOMAIN calls[c].loadedFiles = {LoadedUrl(n) : n \in compiled}
            /\ DOMAIN calls[c].emittedFiles = {EmittedUrl(n) : n \in compiled}
       /\ calls[c].result.settled =>
            /\ DOMAIN calls[c].result.diagnostics = compiled
            /\ DOMAIN calls[c].result.files = {EmittedUrl(n) : n \in compiled}
       /\ calls[c].slowCalls = 1 =>
            DOMAIN calls[c].slowDiagnostics = DOMAIN calls[c].result.diagnostics

\* C4 witness: a call for a project with one compiled and one skipped file
\* has returned and has invoked the callback.
C4_Witness ==
  \E c \in DOMAIN calls :
    /\ calls[c].result.settled
    /\ calls[c].slowCalls = 1
    /\ NamesOf(calls[c].files) = {"a.ts", "c.html"}
    /\ DOMAIN calls[c].result.diagnostics = {"a.ts"}

\* C15: slowDiagnosticsCallback of a call is never invoked before the promise
\* of that call has been resolved with the fast result (the emitted files and
\* the syntactic diagnostics), whenever getFiles() resolves, also when its
\* promise is already resolved at the await.
C15_SlowCallbackAfterResult ==
  \A c \in DOMAIN calls :
    calls[c].slowCalls > 0 =>
      /\ calls[c].result.settled
      /\ calls[c].result.files = calls[c].emittedFiles
      /\ calls[c].result.diagnostics = calls[c].fastDiagnostics

\* The callback of a call has been invoked whose getFiles() had resolved
\* before the call returned.
C15_Witness ==
  \E c \in DOMAIN calls :
    /\ calls[c].slowCalls = 1
    /\ calls[c].fetchedAt = "awaiting"
    /\ calls[c].result.settled
    /\ calls[c].inputFiles # <<>>

\* The files of call c that compileProject takes as input, by position.
OwnInputs(c) ==
  {i \in DOMAIN calls[c].files :
     EndsWith(calls[c].files[i].name, ".ts")
       \/ EndsWith(calls[c].files[i].name, ".js")}

OwnInputNames(c) == {calls[c].files[i].name : i \in OwnInputs(c)}

\* The URLs under which call c has stored the declaration files it fetched.
OwnTypeUrls(c) ==
  IF calls[c].slowCalls > 0
  THEN {UrlOf("node_modules/" \o sp) : sp \in DOMAIN calls[c].types}
  ELSE {}

\* The file system made of nothing but what call c was given and what its
\* own fetch came back with.
OwnFileSystem(c) ==
  LET files == calls[c].files
      inputUrls == {UrlOf(files[i].name) : i \in OwnInputs(c)}
      last(u) == CHOOSE i \in OwnInputs(c) :
                   /\ UrlOf(files[i].name) = u
                   /\ \A j \in OwnInputs(c) :
                        UrlOf(files[j].name) = u => j <= i
      type(u) == CHOOSE sp \in DOMAIN calls[c].types :
                   UrlOf("node_modules/" \o sp) = u
  IN [u \in inputUrls \cup OwnTypeUrls(c) |->
        IF u \in OwnTypeUrls(c)
        THEN [status |-> "resolved", content |-> calls[c].types[type(u)]]
        ELSE [status |-> "resolved", content |-> files[last(u)].content]]

\* C16: overlapping compileProject calls are isolated: for any interleaving
\* of the calls and any order in which their fetches complete, the file system
\* of each call holds nothing but that call's own input files and fetched
\* declarations (nothing another call wrote is visible in it), and the
\* diagnostics its slowDiagnosticsCallback receives are keyed by its own input
\* file names and computed over its own files.
C16_CallsIsolated ==
  \A c \in DOMAIN calls :
    /\ calls[c].loadedFiles = OwnFileSystem(c)
    /\ calls[c].slowCalls > 0 =>
         /\ DOMAIN calls[c].slowDiagnostics = OwnInputNames(c)
         /\ \A name \in OwnInputNames(c) :
              calls[c].slowDiagnostics[name] =
                SemanticDiagnostics(OwnFileSystem(c), UrlOf(name))

\* Two calls overlapped and both callbacks were invoked: the second call was
\* made before the first one's slow pass ran, the two were given different
\* files, and their fetches came back with different declarations.
C16_Witness ==
  /\ Len(calls) >= 2
  /\ calls[1].slowCalls = 1
  /\ calls[2].slowCalls = 1
  /\ calls[1].callsAtSlow >= 2
  /\ calls[1].files # calls[2].files
  /\ calls[1].types # calls[2].types
  /\ calls[1].slowDiagnostics # calls[2].slowDiagnostics

\* C9: for the path last asked about, fileExists is true iff the files map
\* holds a 'resolved' record for it, readFile gives that record's content iff
\* so and undefined otherwise, and getScriptSnapshot is undefined iff not; so
\* a path with a 'pending' or 'redirected' record is answered like a path
\* with no record.
C9_OnlyResolvedExists ==
  LET path == hostAnswer.path
      resolved == /\ path \in DOMAIN hostFiles
                  /\ hostFiles[path].status = "resolved"
  IN /\ hostAnswer.op = "fileExists" => (hostAnswer.told <=> resolved)
     /\ hostAnswer.op = "readFile" =>
          hostAnswer.text = IF resolved THEN hostFiles[path].content
                            ELSE NoContent
     /\ hostAnswer.op = "getScriptSnapshot" =>
          ((hostAnswer.text = NoContent) <=> ~resolved)

\* C9 witness: the host was asked whether a path with a 'pending' record
\* exists and said no, while the map also holds a 'resolved' and a
\* 'redirected' record.
C9_Witness ==
  /\ hostAnswer.op = "fileExists"
  /\ hostAnswer.path \in DOMAIN hostFiles
  /\ hostFiles[hostAnswer.path].status = "pending"
  /\ ~hostAnswer.told
  /\ \E q \in DOMAIN hostFiles : hostFiles[q].status = "resolved"
  /\ \E q \in DOMAIN hostFiles : hostFiles[q].status = "redirected"

====
